---- MODULE Spec2Model ----
(***************************************************************************)
(* Model of run_phone_mast_analysis_report.py: the four report queries     *)
(* over a CSV file of phone-mast leases, and main(), which runs the        *)
(* queries selected on the command line.                                   *)
(*                                                                         *)
(* Text is a sequence of one-character strings, so that float(), int(),    *)
(* arrow.get() and Arrow.format() are computed character by character.     *)
(* A Python float is an IEEE-754 binary64: [exp, mant] with mant the 53    *)
(* mantissa bits, most significant first (mant[1] = 1), and value          *)
(* mant[1].mant[2]..mant[53] * 2^exp; 0.0 has an empty mantissa.  The      *)
(* model's numbers are non-negative, finite and normal.                    *)
(***************************************************************************)
EXTENDS Integers, Sequences, FiniteSets, TLC

\* Bounds of the model.
MaxRows == 3
MaxN == 4

MantBits == 53

None == "None"

Range(s) == {s[i] : i \in DOMAIN s}

Min(a, b) == IF a <= b THEN a ELSE b

Zeros(n) == [i \in 1..n |-> 0]

Pow2(n) ==
    <<1, 2, 4, 8, 16, 32, 64, 128, 256, 512, 1024, 2048, 4096, 8192, 16384,
      32768, 65536, 131072, 262144, 524288, 1048576, 2097152, 4194304>>[n + 1]

RECURSIVE Pow10(_)
Pow10(n) == IF n = 0 THEN 1 ELSE 10 * Pow10(n - 1)

(***************************************************************************)
(* Characters and text.                                                    *)
(***************************************************************************)
DigitChars == <<"0", "1", "2", "3", "4", "5", "6", "7", "8", "9">>

IsDigit(c) == c \in Range(DigitChars)

DigitVal(c) == CHOOSE v \in 0..9 : DigitChars[v + 1] = c

DigitChar(v) == DigitChars[v + 1]

AllDigits(s) == \A i \in DOMAIN s : IsDigit(s[i])

\* The value of a non-empty run of decimal digits.
RECURSIVE DigitsVal(_)
DigitsVal(s) ==
    IF s = <<>> THEN 0
    ELSE 10 * DigitsVal(SubSeq(s, 1, Len(s) - 1)) + DigitVal(s[Len(s)])

\* str.strip() as float() and int() apply it to their argument.
RECURSIVE LStrip(_)
LStrip(s) == IF s # <<>> /\ s[1] = " " THEN LStrip(Tail(s)) ELSE s

RECURSIVE RStrip(_)
RStrip(s) ==
    IF s # <<>> /\ s[Len(s)] = " " THEN RStrip(SubSeq(s, 1, Len(s) - 1)) ELSE s

Strip(s) == RStrip(LStrip(s))

\* The position of the first "." of s, 0 when there is none.
DotPos(s) ==
    IF \E i \in DOMAIN s : s[i] = "."
    THEN CHOOSE i \in DOMAIN s : s[i] = "." /\ \A j \in 1..(i - 1) : s[j] # "."
    ELSE 0

(***************************************************************************)
(* Decimal literals: digits, digits "." digits*, "." digits, with blanks   *)
(* around.  The literal denotes num / den.                                 *)
(***************************************************************************)
ParseDecimal(text) ==
    LET s == Strip(text)
        p == DotPos(s)
        ip == IF p = 0 THEN s ELSE SubSeq(s, 1, p - 1)
        fp == IF p = 0 THEN <<>> ELSE SubSeq(s, p + 1, Len(s))
    IN  IF AllDigits(ip) /\ AllDigits(fp) /\ Len(ip) + Len(fp) > 0
        THEN [ok |-> TRUE, num |-> DigitsVal(ip \o fp), den |-> Pow10(Len(fp))]
        ELSE [ok |-> FALSE, num |-> 0, den |-> 1]

(***************************************************************************)
(* binary64 arithmetic.                                                    *)
(***************************************************************************)
FloatZero == [exp |-> 0, mant |-> <<>>]

\* a + b + c for bit sequences a, b of length n >= 1, least significant last;
\* the result has n + 1 bits, the first is the carry out.  The carry into
\* place i is 1 when a place below i generates one (or c comes in at the end)
\* and every place in between propagates it.
CarryInto(a, b, n, c, i) ==
    \/ \E j \in (i + 1)..n :
          a[j] + b[j] = 2 /\ \A k \in (i + 1)..(j - 1) : a[k] + b[k] = 1
    \/ c = 1 /\ \A k \in (i + 1)..n : a[k] + b[k] = 1

AddBits(a, b, n, c) ==
    [i \in 1..(n + 1) |->
        IF i = 1 THEN (IF CarryInto(a, b, n, c, 0) THEN 1 ELSE 0)
        ELSE (a[i - 1] + b[i - 1] + (IF CarryInto(a, b, n, c, i - 1) THEN 1 ELSE 0)) % 2]

\* Round-half-to-even of the bits (bits[1] = 1, value bits * 2^exp) to 53
\* bits; sticky says that non-zero bits follow the given ones.
RoundBits(exp, bits, sticky) ==
    IF Len(bits) <= MantBits
    THEN [exp |-> exp, mant |-> bits \o Zeros(MantBits - Len(bits))]
    ELSE LET mant == SubSeq(bits, 1, MantBits)
             guard == bits[MantBits + 1]
             rest == sticky \/ \E i \in (MantBits + 2)..Len(bits) : bits[i] = 1
             up == guard = 1 /\ (rest \/ mant[MantBits] = 1)
             inc == AddBits(mant, Zeros(MantBits), MantBits, 1)
         IN  IF ~up THEN [exp |-> exp, mant |-> mant]
             ELSE IF inc[1] = 1
                  THEN [exp |-> exp + 1, mant |-> SubSeq(inc, 1, MantBits)]
                  ELSE [exp |-> exp, mant |-> Tail(inc)]

\* Long division of rem / b (0 <= rem < b) by k * 9 binary places, 9 places
\* at a time: the k quotients of 9 bits, then the remainder.
ChunkBits == 9

RECURSIVE FracChunks(_, _, _)
FracChunks(rem, b, k) ==
    IF k = 0 THEN <<rem>>
    ELSE <<(rem * Pow2(ChunkBits)) \div b>>
         \o FracChunks((rem * Pow2(ChunkBits)) % b, b, k - 1)

\* The first n bits of the binary expansion of rem / b, n a multiple of 9.
FracBits(rem, b, n) ==
    LET q == FracChunks(rem, b, n \div ChunkBits)
    IN  [i \in 1..n |->
            (q[(i - 1) \div ChunkBits + 1]
                \div Pow2(ChunkBits - 1 - ((i - 1) % ChunkBits))) % 2]

\* What is left of rem / b after those n bits: (rem * 2^n) mod b.
FracRem(rem, b, n) == FracChunks(rem, b, n \div ChunkBits)[n \div ChunkBits + 1]

\* The largest e >= 0 with den * 2^e <= num (num >= den).
RECURSIVE ExpUp(_, _, _)
ExpUp(num, den, e) ==
    IF den * Pow2(e + 1) <= num THEN ExpUp(num, den, e + 1) ELSE e

\* The smallest k >= 1 with num * 2^k >= den (0 < num < den).
RECURSIVE ExpDown(_, _, _)
ExpDown(num, den, k) ==
    IF num * Pow2(k) >= den THEN k ELSE ExpDown(num, den, k + 1)

\* The binary64 nearest to num / den (correctly rounded, as strtod does).
RoundToDouble(num, den) ==
    IF num = 0 THEN FloatZero
    ELSE LET e == IF num >= den THEN ExpUp(num, den, 0)
                  ELSE 0 - ExpDown(num, den, 1)
             a == IF e >= 0 THEN num ELSE num * Pow2(0 - e)
             b == IF e >= 0 THEN den * Pow2(e) ELSE den
         IN  RoundBits(e, <<1>> \o FracBits(a - b, b, MantBits + 1),
                       FracRem(a - b, b, MantBits + 1) # 0)

\* x < y on floats.
BitsLess(a, b) ==
    \E i \in DOMAIN a : a[i] < b[i] /\ \A j \in 1..(i - 1) : a[j] = b[j]

FloatLess(x, y) ==
    IF y.mant = <<>> THEN FALSE
    ELSE IF x.mant = <<>> THEN TRUE
    ELSE IF x.exp # y.exp THEN x.exp < y.exp
    ELSE BitsLess(x.mant, y.mant)

\* x + y on floats: the exact sum, rounded half to even.
FloatAdd(x, y) ==
    IF x.mant = <<>> THEN y
    ELSE IF y.mant = <<>> THEN x
    ELSE LET hi == IF x.exp >= y.exp THEN x ELSE y
             lo == IF x.exp >= y.exp THEN y ELSE x
             d == hi.exp - lo.exp
             s == AddBits(hi.mant \o Zeros(d), Zeros(d) \o lo.mant, MantBits + d, 0)
         IN  IF s[1] = 1 THEN RoundBits(hi.exp + 1, s, FALSE)
             ELSE RoundBits(hi.exp, Tail(s), FALSE)

(***************************************************************************)
(* Python's float(str) and int(str).  The model's text is made of digits,  *)
(* ".", " ", "/", "-" (in dates) and letters; a sign, an exponent or an    *)
(* underscore never occurs in a numeric field of the model.                *)
(***************************************************************************)
ValueError == "ValueError"

ParserError == "ParserError"

float(text) ==
    LET d == ParseDecimal(text)
    IN  IF d.ok THEN [ok |-> TRUE, val |-> RoundToDouble(d.num, d.den)]
        ELSE [ok |-> FALSE, val |-> FloatZero]

\* An int() that gives 0 for what it cannot convert.
int_default(text) ==
    LET s == Strip(text)
    IN  [ok |-> TRUE, val |-> IF s # <<>> /\ AllDigits(s) THEN DigitsVal(s) ELSE 0]

int(text) ==
    LET s == Strip(text)
    IN  IF s # <<>> /\ AllDigits(s) THEN [ok |-> TRUE, val |-> DigitsVal(s)]
        ELSE [ok |-> FALSE, val |-> 0]

\* sum(list of floats): left to right from 0.
RECURSIVE sum(_)
sum(xs) ==
    IF xs = <<>> THEN FloatZero
    ELSE FloatAdd(sum(SubSeq(xs, 1, Len(xs) - 1)), xs[Len(xs)])

(***************************************************************************)
(* arrow.get(text, fmt) and Arrow.format(fmt).  An Arrow date is           *)
(* [year, month, day] (the time of day is always 00:00:00 UTC).            *)
(***************************************************************************)
MonthAbbreviations ==
    << <<"j", "a", "n">>, <<"f", "e", "b">>, <<"m", "a", "r">>, <<"a", "p", "r">>,
       <<"m", "a", "y">>, <<"j", "u", "n">>, <<"j", "u", "l">>, <<"a", "u", "g">>,
       <<"s", "e", "p">>, <<"o", "c", "t">>, <<"n", "o", "v">>, <<"d", "e", "c">> >>

\* str.lower() on the letters of the month abbreviations (no other capital
\* can make a month).
Lower(c) ==
    CASE c = "J" -> "j" [] c = "A" -> "a" [] c = "N" -> "n" [] c = "F" -> "f"
      [] c = "E" -> "e" [] c = "B" -> "b" [] c = "M" -> "m" [] c = "R" -> "r"
      [] c = "P" -> "p" [] c = "Y" -> "y" [] c = "U" -> "u" [] c = "L" -> "l"
      [] c = "G" -> "g" [] c = "S" -> "s" [] c = "O" -> "o" [] c = "C" -> "c"
      [] c = "T" -> "t" [] c = "V" -> "v" [] c = "D" -> "d"
      [] OTHER -> c

LowerText(s) == [i \in DOMAIN s |-> Lower(s[i])]

\* The number of the month whose abbreviation is s, 0 when it is none.
MonthNumber(s) ==
    IF \E m \in 1..12 : MonthAbbreviations[m] = LowerText(s)
    THEN CHOOSE m \in 1..12 : MonthAbbreviations[m] = LowerText(s)
    ELSE 0

IsLeap(y) == (y % 4 = 0 /\ y % 100 # 0) \/ y % 400 = 0

DaysInMonth(y, m) ==
    IF m = 2 THEN (IF IsLeap(y) THEN 29 ELSE 28)
    ELSE IF m \in {4, 6, 9, 11} THEN 30 ELSE 31

\* datetime(year, month, day) accepts the date.
ValidDate(y, m, d) == y >= 1 /\ m \in 1..12 /\ d >= 1 /\ d <= DaysInMonth(y, m)

NoDate == [year |-> 0, month |-> 0, day |-> 0]

FMT_YMD == "YYYY-MM-DD"

FMT_DMY == "DD MMM YYYY"

FMT_OUT == "DD/MM/YYYY"

arrow_get(text, fmt) ==
    LET bad == [ok |-> FALSE, val |-> NoDate]
        date(y, m, d) ==
            IF ValidDate(y, m, d)
            THEN [ok |-> TRUE, val |-> [year |-> y, month |-> m, day |-> d]]
            ELSE bad
    IN  IF fmt = FMT_YMD
        THEN IF /\ Len(text) = 10
                /\ text[5] = "-"
                /\ text[8] = "-"
                /\ AllDigits(SubSeq(text, 1, 4))
                /\ AllDigits(SubSeq(text, 6, 7))
                /\ AllDigits(SubSeq(text, 9, 10))
             THEN date(DigitsVal(SubSeq(text, 1, 4)), DigitsVal(SubSeq(text, 6, 7)),
                       DigitsVal(SubSeq(text, 9, 10)))
             ELSE bad
        ELSE IF /\ Len(text) = 11
                /\ text[3] = " "
                /\ text[7] = " "
                /\ AllDigits(SubSeq(text, 1, 2))
                /\ AllDigits(SubSeq(text, 8, 11))
             THEN date(DigitsVal(SubSeq(text, 8, 11)), MonthNumber(SubSeq(text, 4, 6)),
                       DigitsVal(SubSeq(text, 1, 2)))
             ELSE bad

\* Arrow.format('DD/MM/YYYY'): zero-padded day and month, four-digit year.
arrow_format(d) ==
    << DigitChar(d.day \div 10), DigitChar(d.day % 10), "/",
       DigitChar(d.month \div 10), DigitChar(d.month % 10), "/",
       DigitChar(d.year \div 1000), DigitChar((d.year \div 100) % 10),
       DigitChar((d.year \div 10) % 10), DigitChar(d.year % 10) >>

\* a <= b on Arrow dates.
DateLE(a, b) ==
    \/ a.year < b.year
    \/ a.year = b.year /\ a.month < b.month
    \/ a.year = b.year /\ a.month = b.month /\ a.day <= b.day

(***************************************************************************)
(* The CSV file: its header line (fieldnames) and its data lines, each a   *)
(* sequence of cells in the order of the header.                           *)
(***************************************************************************)
Columns ==
    <<"Property Name", "Property Address", "Unit Name", "Tenant Name",
      "Lease Start Date", "Lease End Date", "Lease Years", "Current Rent">>

\* The same columns in another order.
ColumnsReordered ==
    <<"Tenant Name", "Current Rent", "Lease Years", "Lease End Date",
      "Lease Start Date", "Unit Name", "Property Address", "Property Name">>

FieldOrders == {Columns, ColumnsReordered}

Farmhouse2 ==
    [h \in Range(Columns) |->
        CASE h = "Property Name" -> <<"F", "a", "r", "m", "h", "o", "u", "s", "e", " ", "2">>
          [] h = "Property Address" -> <<"F", "i", "e", "l", "d", " ", "X">>
          [] h = "Unit Name" -> <<"U", "n", "i", "t", " ", "2">>
          [] h = "Tenant Name" -> <<"C", "e", "l", "l", "W", "o", "r", "k", "s", " ", "L", "t", "d">>
          [] h = "Lease Start Date" -> <<"2", "9", " ", "A", "p", "r", " ", "2", "0", "0", "8">>
          [] h = "Lease End Date" -> <<"2", "8", " ", "A", "p", "r", " ", "2", "0", "1", "8">>
          [] h = "Lease Years" -> <<"1", "0">>
          [] h = "Current Rent" -> <<"7", "0", "0">>]

Farmhouse1 ==
    [h \in Range(Columns) |->
        CASE h = "Property Name" -> <<"F", "a", "r", "m", "h", "o", "u", "s", "e", " ", "1">>
          [] h = "Property Address" -> <<"F", "i", "e", "l", "d", " ", "Y">>
          [] h = "Unit Name" -> <<"U", "n", "i", "t", " ", "1">>
          [] h = "Tenant Name" -> <<"C", "e", "l", "l", "W", "o", "r", "k", "s", " ", "L", "t", "d">>
          [] h = "Lease Start Date" -> <<"2", "9", " ", "A", "p", "r", " ", "2", "0", "0", "2">>
          [] h = "Lease End Date" -> <<"2", "8", " ", "A", "p", "r", " ", "2", "0", "2", "0">>
          [] h = "Lease Years" -> <<"1", "5">>
          [] h = "Current Rent" -> <<"5", "0", "0">>]

Farmhouse3 ==
    [h \in Range(Columns) |->
        CASE h = "Property Name" -> <<"F", "a", "r", "m", "h", "o", "u", "s", "e", " ", "3">>
          [] h = "Property Address" -> <<"F", "i", "e", "l", "d", " ", "Z">>
          [] h = "Unit Name" -> <<"U", "n", "i", "t", " ", "3">>
          [] h = "Tenant Name" -> <<"C", "e", "l", "l", "w", "o", "r", "k", "s", " ", "L", "t", "d">>
          [] h = "Lease Start Date" -> <<"0", "1", " ", "D", "e", "c", " ", "2", "0", "1", "9">>
          [] h = "Lease End Date" -> <<"0", "1", " ", "D", "e", "c", " ", "2", "0", "2", "1">>
          [] h = "Lease Years" -> <<"1", "5">>
          [] h = "Current Rent" -> <<"9", "9", "9", ".", "9", "9">>]

Farmhouse4 ==
    [h \in Range(Columns) |->
        CASE h = "Property Name" -> <<"F", "a", "r", "m", "h", "o", "u", "s", "e", " ", "4">>
          [] h = "Property Address" -> <<"F", "i", "e", "l", "d", " ", "W">>
          [] h = "Unit Name" -> <<"U", "n", "i", "t", " ", "4">>
          [] h = "Tenant Name" -> <<"C", "e", "l", "l", "W", "o", "r", "k", "s", " ", " ", "L", "t", "d">>
          [] h = "Lease Start Date" -> <<"2", "8", " ", "A", "p", "r", " ", "2", "0", "0", "2">>
          [] h = "Lease End Date" -> <<"2", "7", " ", "A", "p", "r", " ", "2", "0", "1", "7">>
          [] h = "Lease Years" -> <<" ", "1", "5">>
          [] h = "Current Rent" -> <<"2", "2", "0", "0", ".", "2", "0">>]

BadRentAndStart ==
    [h \in Range(Columns) |->
        CASE h = "Property Name" -> <<"F", "a", "r", "m", "h", "o", "u", "s", "e", " ", "5">>
          [] h = "Property Address" -> <<"F", "i", "e", "l", "d", " ", "V">>
          [] h = "Unit Name" -> <<"U", "n", "i", "t", " ", "5">>
          [] h = "Tenant Name" -> <<"E", "E", " ", "L", "t", "d">>
          [] h = "Lease Start Date" -> <<"3", "1", " ", "F", "e", "b", " ", "2", "0", "0", "8">>
          [] h = "Lease End Date" -> <<"2", "8", " ", "F", "e", "b", " ", "2", "0", "1", "8">>
          [] h = "Lease Years" -> <<"1", "0">>
          [] h = "Current Rent" -> <<"n", "/", "a">>]

BadYearsAndEnd ==
    [h \in Range(Columns) |->
        CASE h = "Property Name" -> <<"F", "a", "r", "m", "h", "o", "u", "s", "e", " ", "6">>
          [] h = "Property Address" -> <<"F", "i", "e", "l", "d", " ", "U">>
          [] h = "Unit Name" -> <<"U", "n", "i", "t", " ", "6">>
          [] h = "Tenant Name" -> <<"C", "e", "l", "l", "W", "o", "r", "k", "s", " ", "L", "t", "d">>
          [] h = "Lease Start Date" -> <<"3", "0", " ", "A", "p", "r", " ", "2", "0", "0", "8">>
          [] h = "Lease End Date" -> <<"2", "0", "1", "8", "-", "0", "4", "-", "2", "9">>
          [] h = "Lease Years" -> <<"1", "5", ".", "5">>
          [] h = "Current Rent" -> <<"5", "0", "0", ".", "0", "0">>]

\* The first three are the rows of the test suite's sample file
\* (test_run_phone_mast_analysis_report.py, lines 21-23, one tenant name
\* changed in case); the fourth ties none of them, pads its lease years with a
\* blank and starts one day before Farmhouse 1; the last two have fields that
\* float(), int() or arrow.get() reject.
RowPool ==
    {Farmhouse2, Farmhouse1, Farmhouse3, Farmhouse4, BadRentAndStart, BadYearsAndEnd}

IsInjective(s) == \A i, j \in DOMAIN s : s[i] = s[j] => i = j

RowSeqs ==
    UNION {{s \in [1..n -> RowPool] : IsInjective(s)} : n \in 0..MaxRows}

\* The line of the file that holds the row, under the given header.
LineOf(row, fieldnames) == [i \in DOMAIN fieldnames |-> row[fieldnames[i]]]

FileOf(rows, fieldnames) ==
    [fieldnames |-> fieldnames,
     lines |-> [i \in DOMAIN rows |-> LineOf(rows[i], fieldnames)]]

Files == {FileOf(s, o) : s \in RowSeqs, o \in FieldOrders}

\* The -lease_starting_range arguments tried: a well-formed range whose two
\* bounds are lease start dates of the pool, one with a malformed start (a
\* one-digit month) and one with a malformed end (month 13).
GoodRange == <<<<"2", "0", "0", "2", "-", "0", "4", "-", "2", "9">>, <<"2", "0", "0", "8", "-", "0", "4", "-", "2", "9">>>>

BadStartRange == <<<<"2", "0", "0", "2", "-", "4", "-", "2", "9">>, <<"2", "0", "0", "8", "-", "0", "4", "-", "2", "9">>>>

BadEndRange == <<<<"2", "0", "0", "2", "-", "0", "4", "-", "2", "9">>, <<"2", "0", "0", "8", "-", "1", "3", "-", "0", "1">>>>

RangePool == {GoodRange, BadStartRange, BadEndRange}

LeaseYearsPool == {10, 15, 25}

\* float() of the rents of the pool, computed once.
FloatMemo == [text \in {row["Current Rent"] : row \in RowPool} |-> float(text)]

Float(text) == IF text \in DOMAIN FloatMemo THEN FloatMemo[text] ELSE float(text)

(***************************************************************************)
(* csv.DictReader: one dict per data line, keyed by the header's names.    *)
(***************************************************************************)
IndexOf(seq, x) == CHOOSE i \in DOMAIN seq : seq[i] = x

DictReader(f) ==
    [i \in DOMAIN f.lines |->
        [h \in Range(f.fieldnames) |-> f.lines[i][IndexOf(f.fieldnames, h)]]]

\* list(row.values()): the cells in the order of the header.
values(row, fieldnames) == [i \in DOMAIN fieldnames |-> row[fieldnames[i]]]

(***************************************************************************)
(* What a call gives back: the returned dict (table, headers and, for the  *)
(* lease-years query only, total_rent), or the exception it raised.  A key *)
(* the dict does not have is <<>>.                                         *)
(***************************************************************************)
Return(table, headers, total_rent) ==
    [raised |-> None, table |-> table, headers |-> headers, total_rent |-> total_rent]

Raise(exc) ==
    [raised |-> exc, table |-> <<>>, headers |-> <<>>, total_rent |-> <<>>]

NoReturn == Raise(None)

(***************************************************************************)
(* sorted(rows, key, reverse): the indices of keys in sorted order.  The   *)
(* sort is stable: an item goes after every item that is not after it.     *)
(***************************************************************************)
Before(x, y, reverse) == IF reverse THEN FloatLess(y, x) ELSE FloatLess(x, y)

InsertUnstable(prev, keys, n, reverse) ==
    LET k == Cardinality({j \in DOMAIN prev : Before(keys[prev[j]], keys[n], reverse)})
    IN  SubSeq(prev, 1, k) \o <<n>> \o SubSeq(prev, k + 1, Len(prev))

Insert(prev, keys, n, reverse) ==
    LET k == Cardinality({j \in DOMAIN prev : ~Before(keys[n], keys[prev[j]], reverse)})
    IN  SubSeq(prev, 1, k) \o <<n>> \o SubSeq(prev, k + 1, Len(prev))

RECURSIVE sorted(_, _, _)
sorted(keys, n, reverse) ==
    IF n = 0 THEN <<>> ELSE Insert(sorted(keys, n - 1, reverse), keys, n, reverse)

\* lines 34-45
read_and_sort_csv_data_by_current_rent(f, descending) ==
    LET rows == DictReader(f)
        keys == [i \in DOMAIN rows |-> Float(rows[i]["Current Rent"])]
        vals == [i \in DOMAIN rows |-> keys[i].val]
        order == sorted(vals, Len(rows), descending)
    IN  IF \E i \in DOMAIN rows : ~keys[i].ok
        THEN [raised |-> ValueError, value |-> <<>>]
        ELSE [raised |-> None, value |-> [k \in DOMAIN rows |-> rows[order[k]]]]

\* data_set[:num_of_items]
Slice(s, n) ==
    IF n >= 0 THEN SubSeq(s, 1, Min(n, Len(s)))
    ELSE SubSeq(s, 1, IF Len(s) + n > 0 THEN Len(s) + n ELSE 0)

TopHeaders == <<"Property Name", "Unit Name", "Tenant Name", "Current Rent">>

\* lines 48-63
get_top_n_items_from_list_data(data_set, num_of_items) ==
    LET top_dataset == Slice(data_set, num_of_items)
    IN  Return([i \in DOMAIN top_dataset |->
                    [c \in DOMAIN TopHeaders |-> top_dataset[i][TopHeaders[c]]]],
               TopHeaders, <<>>)

\* lines 78-105
LeaseYearsMatchAtLeast(years, lease_years) == years >= lease_years

LeaseYearsMatch(years, lease_years) == years = lease_years

get_records_that_match_number_of_lease_years(f, lease_years) ==
    LET rows == DictReader(f)
        years == [i \in DOMAIN rows |-> int(rows[i]["Lease Years"])]
        Matches(i) == LeaseYearsMatch(years[i].val, lease_years)
        matched == SelectSeq([i \in DOMAIN rows |-> i], Matches)
        rents == [k \in DOMAIN matched |-> Float(rows[matched[k]]["Current Rent"])]
    IN  IF \E i \in DOMAIN rows : ~years[i].ok THEN Raise(ValueError)
        ELSE IF \E k \in DOMAIN rents : ~rents[k].ok THEN Raise(ValueError)
        ELSE Return([k \in DOMAIN matched |-> values(rows[matched[k]], f.fieldnames)],
                    f.fieldnames,
                    << <<sum([k \in DOMAIN rents |-> rents[k].val])>> >>)

(***************************************************************************)
(* collections.Counter(names).items(): (name, count) in the order in which *)
(* the names first occur.                                                  *)
(***************************************************************************)
CounterAddOnce(c, x) ==
    IF \E k \in DOMAIN c : c[k][1] = x THEN c ELSE Append(c, <<x, 1>>)

CounterAdd(c, x) ==
    IF \E k \in DOMAIN c : c[k][1] = x
    THEN [k \in DOMAIN c |-> IF c[k][1] = x THEN <<x, c[k][2] + 1>> ELSE c[k]]
    ELSE Append(c, <<x, 1>>)

RECURSIVE Counter(_)
Counter(names) ==
    IF names = <<>> THEN <<>>
    ELSE CounterAdd(Counter(SubSeq(names, 1, Len(names) - 1)), names[Len(names)])

TenantHeaders == <<"Tenant Name", "Number of Masts">>

\* lines 108-120
get_tenant_name_and_mast_count(f) ==
    LET rows == DictReader(f)
        tenant_names == [i \in DOMAIN rows |-> rows[i]["Tenant Name"]]
    IN  Return(Counter(tenant_names), TenantHeaders, <<>>)

(***************************************************************************)
(* get_rental_data_for_lease_between_start_and_end_dates, lines 123-158,   *)
(* statement by statement.  rental_data is the list of dicts the function  *)
(* reads and then changes in place; filter_data holds references to dicts  *)
(* of rental_data, here their indices.                                     *)
(***************************************************************************)
WindowHeaders ==
    <<"Property Name", "Unit Name", "Tenant Name", "Lease Start Date",
      "Lease End Date", "Lease Years", "Current Rent">>

\* lines 129-134: the two bounds, or the exception of the first that fails.
ParseBounds(lease_start_dt_range) ==
    LET d1 == arrow_get(lease_start_dt_range[1], FMT_YMD)
        d2 == arrow_get(lease_start_dt_range[2], FMT_YMD)
    IN  [raised |-> IF d1.ok /\ d2.ok THEN None ELSE ParserError,
         lease_start_date_1 |-> d1.val, lease_start_date_2 |-> d2.val]

\* lines 137-139: every item's two dates become Arrow dates, in order; the
\* first date that fails raises and leaves the items before it converted.
ConvertDates(data) ==
    LET s == [i \in DOMAIN data |-> arrow_get(data[i]["Lease Start Date"], FMT_DMY)]
        e == [i \in DOMAIN data |-> arrow_get(data[i]["Lease End Date"], FMT_DMY)]
        bad == {i \in DOMAIN data : ~s[i].ok \/ ~e[i].ok}
        stop == IF bad = {} THEN Len(data) + 1
                ELSE CHOOSE i \in bad : \A j \in bad : i <= j
    IN  [raised |-> IF bad = {} THEN None ELSE ParserError,
         data |-> [i \in DOMAIN data |->
                    IF i < stop
                    THEN [data[i] EXCEPT !["Lease Start Date"] = s[i].val,
                                         !["Lease End Date"] = e[i].val]
                    ELSE IF i = stop /\ s[i].ok
                    THEN [data[i] EXCEPT !["Lease Start Date"] = s[i].val]
                    ELSE data[i]]]

\* line 142
InRangeHalfOpen(d, lo, hi) == DateLE(lo, d) /\ ~DateLE(hi, d)

InRange(d, lo, hi) == DateLE(lo, d) /\ DateLE(d, hi)

\* lines 141-143
FilterDates(data, lo, hi) ==
    LET Inside(i) == InRange(data[i]["Lease Start Date"], lo, hi)
    IN  SelectSeq([i \in DOMAIN data |-> i], Inside)

\* lines 145-147
FormatDates(data, refs) ==
    [i \in DOMAIN data |->
        IF i \in Range(refs)
        THEN [data[i] EXCEPT
                !["Lease Start Date"] = arrow_format(data[i]["Lease Start Date"]),
                !["Lease End Date"] = arrow_format(data[i]["Lease End Date"])]
        ELSE data[i]]

\* lines 150-158
WindowTable(data, refs) ==
    [k \in DOMAIN refs |->
        [c \in DOMAIN WindowHeaders |-> data[refs[k]][WindowHeaders[c]]]]

\* The whole call on a freshly read file.
get_rental_data_for_lease_between_start_and_end_dates(f, lease_start_dt_range) ==
    LET b == ParseBounds(lease_start_dt_range)
        c == ConvertDates(DictReader(f))
        refs == FilterDates(c.data, b.lease_start_date_1, b.lease_start_date_2)
    IN  IF b.raised # None THEN Raise(b.raised)
        ELSE IF c.raised # None THEN Raise(c.raised)
        ELSE Return(WindowTable(FormatDates(c.data, refs), refs), WindowHeaders, <<>>)

\* lines 22-31
check_file_exists_lenient(isfile) == [raised |-> None, value |-> None]

check_file_exists(isfile) ==
    [raised |-> IF ~isfile THEN ValueError ELSE None, value |-> None]

(***************************************************************************)
(* The state.                                                              *)
(*   csv, file_exists    the input file: its content, and os.path.isfile   *)
(*   args                the Namespace arg_parser() returns                *)
(*   pc                  where the program is                              *)
(*   call, ret           the query last called and what it gave back       *)
(*   rental_data, filter_data, lease_start_date_1, lease_start_date_2      *)
(*                       the locals of the lease-window query              *)
(*   stdout              the tables print_tabulated_output printed         *)
(*   log                 the warnings main() logged (a set)                *)
(*   window_before       history: a lease-window call that reformatted at  *)
(*                       least one row returned before the current call    *)
(***************************************************************************)
VARIABLES csv, file_exists, args, pc, call, ret, rental_data, filter_data,
          lease_start_date_1, lease_start_date_2, stdout, log, window_before

vars == <<csv, file_exists, args, pc, call, ret, rental_data, filter_data,
          lease_start_date_1, lease_start_date_2, stdout, log, window_before>>

\* An optional argument is <<>> when absent (None) and <<v>> when given.
NoArgs == [top_rents |-> <<>>, lease_years |-> <<>>, tenants |-> FALSE,
           lease_starting_range |-> <<>>]

Call(fn, n, range) == [fn |-> fn, n |-> n, range |-> range]

NoCall == Call(None, 0, <<>>)

\* A call begins: the locals of the call before are gone.
NewCall ==
    window_before' =
        (window_before
            \/ (call.fn = "lease_starting_range" /\ ret.raised = None /\ ret.table # <<>>))

NoWindowLocals ==
    /\ rental_data' = <<>>
    /\ filter_data' = <<>>
    /\ lease_start_date_1' = NoDate
    /\ lease_start_date_2' = NoDate

(***************************************************************************)
(* The lease-window query, one action per statement.                       *)
(***************************************************************************)
\* lines 124-127
WindowRead(range) ==
    /\ call' = Call("lease_starting_range", 0, range)
    /\ IF file_exists
       THEN /\ rental_data' = DictReader(csv)
            /\ ret' = NoReturn
            /\ pc' = "w_bounds"
       ELSE /\ rental_data' = <<>>
            /\ ret' = Raise("FileNotFoundError")
            /\ pc' = "w_done"
    /\ filter_data' = <<>>
    /\ lease_start_date_1' = NoDate
    /\ lease_start_date_2' = NoDate

\* lines 129-134 without the raise: the error is logged and the call goes on.
WindowBoundsSwallow ==
    /\ pc = "w_bounds"
    /\ LET b == ParseBounds(call.range)
       IN  /\ lease_start_date_1' = b.lease_start_date_1
           /\ lease_start_date_2' = b.lease_start_date_2
           /\ log' = log
           /\ pc' = "w_convert"
           /\ ret' = ret
    /\ UNCHANGED <<csv, file_exists, args, call, rental_data, filter_data, stdout, window_before>>

\* lines 129-134
WindowBounds ==
    /\ pc = "w_bounds"
    /\ LET b == ParseBounds(call.range)
       IN  IF b.raised # None
           THEN /\ ret' = Raise(b.raised)
                /\ pc' = "w_done"
                /\ UNCHANGED <<lease_start_date_1, lease_start_date_2>>
           ELSE /\ lease_start_date_1' = b.lease_start_date_1
                /\ lease_start_date_2' = b.lease_start_date_2
                /\ pc' = "w_convert"
                /\ UNCHANGED ret
    /\ UNCHANGED <<log, csv, file_exists, args, call, rental_data, filter_data, stdout,
                   window_before>>

\* lines 137-139
WindowConvert ==
    /\ pc = "w_convert"
    /\ LET c == ConvertDates(rental_data)
       IN  /\ rental_data' = c.data
           /\ IF c.raised # None
              THEN ret' = Raise(c.raised) /\ pc' = "w_done"
              ELSE ret' = ret /\ pc' = "w_filter"
    /\ UNCHANGED <<csv, file_exists, args, call, filter_data, lease_start_date_1,
                   lease_start_date_2, stdout, log, window_before>>

\* lines 141-143
WindowFilter ==
    /\ pc = "w_filter"
    /\ filter_data' = FilterDates(rental_data, lease_start_date_1, lease_start_date_2)
    /\ pc' = "w_format"
    /\ UNCHANGED <<csv, file_exists, args, call, ret, rental_data, lease_start_date_1,
                   lease_start_date_2, stdout, log, window_before>>

\* lines 145-147, had the dicts been shared with the file's rows: the
\* reformatted dates show in what every later query reads.
WindowFormatShared ==
    /\ pc = "w_format"
    /\ rental_data' = FormatDates(rental_data, filter_data)
    /\ csv' = [csv EXCEPT !.lines =
                 [i \in DOMAIN csv.lines |->
                    IF i \in Range(filter_data)
                    THEN values(rental_data'[i], csv.fieldnames)
                    ELSE csv.lines[i]]]
    /\ pc' = "w_return"
    /\ UNCHANGED <<file_exists, args, call, ret, filter_data, lease_start_date_1,
                   lease_start_date_2, stdout, log, window_before>>

\* lines 145-147
WindowFormat ==
    /\ pc = "w_format"
    /\ rental_data' = FormatDates(rental_data, filter_data)
    /\ pc' = "w_return"
    /\ UNCHANGED <<csv, file_exists, args, call, ret, filter_data, lease_start_date_1,
                   lease_start_date_2, stdout, log, window_before>>

\* lines 150-158
WindowReturn ==
    /\ pc = "w_return"
    /\ ret' = Return(WindowTable(rental_data, filter_data), WindowHeaders, <<>>)
    /\ pc' = "w_done"
    /\ UNCHANGED <<csv, file_exists, args, call, rental_data, filter_data,
                   lease_start_date_1, lease_start_date_2, stdout, log, window_before>>

WindowStep ==
    \/ WindowBounds
    \/ WindowConvert
    \/ WindowFilter
    \/ WindowFormat
    \/ WindowReturn

(***************************************************************************)
(* The queries called directly, in any order and any number of times, as   *)
(* test_run_phone_mast_analysis_report.py calls them.                      *)
(***************************************************************************)
Idle == pc \in {"idle", "w_done"}

\* test lines 46-48
TestTopRents(n) ==
    /\ Idle
    /\ call' = Call("top_rents", n, <<>>)
    /\ LET sorted_data == read_and_sort_csv_data_by_current_rent(csv, FALSE)
       IN  ret' = IF sorted_data.raised # None THEN Raise(sorted_data.raised)
                  ELSE get_top_n_items_from_list_data(sorted_data.value, n)
    /\ pc' = "idle"
    /\ NewCall
    /\ NoWindowLocals
    /\ UNCHANGED <<csv, file_exists, args, stdout, log>>

\* test lines 67-69
TestLeaseYears(y) ==
    /\ Idle
    /\ call' = Call("lease_years", y, <<>>)
    /\ ret' = get_records_that_match_number_of_lease_years(csv, y)
    /\ pc' = "idle"
    /\ NewCall
    /\ NoWindowLocals
    /\ UNCHANGED <<csv, file_exists, args, stdout, log>>

\* test lines 81-82
TestTenants ==
    /\ Idle
    /\ call' = Call("tenants", 0, <<>>)
    /\ ret' = get_tenant_name_and_mast_count(csv)
    /\ pc' = "idle"
    /\ NewCall
    /\ NoWindowLocals
    /\ UNCHANGED <<csv, file_exists, args, stdout, log>>

\* test lines 89-93
TestWindow(range) ==
    /\ Idle
    /\ NewCall
    /\ WindowRead(range)
    /\ UNCHANGED <<csv, file_exists, args, stdout, log>>

Init ==
    /\ csv \in Files
    /\ file_exists = TRUE
    /\ args = NoArgs
    /\ pc = "idle"
    /\ call = NoCall
    /\ ret = NoReturn
    /\ rental_data = <<>>
    /\ filter_data = <<>>
    /\ lease_start_date_1 = NoDate
    /\ lease_start_date_2 = NoDate
    /\ stdout = <<>>
    /\ log = {}
    /\ window_before = FALSE

Next ==
    \/ \E n \in 0..MaxN : TestTopRents(n)
    \/ \E y \in LeaseYearsPool : TestLeaseYears(y)
    \/ TestTenants
    \/ \E range \in RangePool : TestWindow(range)
    \/ WindowStep

Spec == Init /\ [][Next]_vars

(***************************************************************************)
(* main(), lines 183-227: one run of the program on the command line       *)
(* args, one action per block.  An exception that leaves a block ends the  *)
(* run (pc = "m_failed") with nothing more printed.                        *)
(***************************************************************************)
\* lines 66-75: the table goes to stdout.
print_tabulated_output(out, array_obj, headers) ==
    Append(out, [table |-> array_obj, headers |-> headers])

\* bool() of an optional int (None and 0 are false) and of an optional list.
Truthy(opt) == opt # <<>> /\ opt[1] # 0

TotalRentHeaders == <<"Total Rent">>

\* line 187
MainCheckFile ==
    /\ pc = "m_start"
    /\ LET r == check_file_exists(file_exists)
       IN  IF r.raised # None
           THEN ret' = Raise(r.raised) /\ pc' = "m_failed"
           ELSE ret' = ret /\ pc' = "m_top"
    /\ UNCHANGED <<csv, file_exists, args, call, rental_data, filter_data,
                   lease_start_date_1, lease_start_date_2, stdout, log, window_before>>

\* lines 189-194
MainTopRents ==
    /\ pc = "m_top"
    /\ IF Truthy(args.top_rents)
       THEN LET sorted_rent_data == read_and_sort_csv_data_by_current_rent(csv, FALSE)
                top_rents == get_top_n_items_from_list_data(sorted_rent_data.value,
                                                            args.top_rents[1])
            IN  /\ call' = Call("top_rents", args.top_rents[1], <<>>)
                /\ IF sorted_rent_data.raised # None
                   THEN /\ ret' = Raise(sorted_rent_data.raised)
                        /\ pc' = "m_failed"
                        /\ stdout' = stdout
                   ELSE /\ ret' = top_rents
                        /\ pc' = "m_years"
                        /\ stdout' = print_tabulated_output(stdout, top_rents.table,
                                                            top_rents.headers)
       ELSE /\ pc' = "m_years"
            /\ UNCHANGED <<call, ret, stdout>>
    /\ NewCall
    /\ UNCHANGED <<csv, file_exists, args, rental_data, filter_data, lease_start_date_1,
                   lease_start_date_2, log>>

\* lines 197-205
MainLeaseYears ==
    /\ pc = "m_years"
    /\ IF Truthy(args.lease_years)
       THEN LET matched_lease_yrs_data ==
                    get_records_that_match_number_of_lease_years(csv, args.lease_years[1])
            IN  /\ call' = Call("lease_years", args.lease_years[1], <<>>)
                /\ ret' = matched_lease_yrs_data
                /\ IF matched_lease_yrs_data.raised # None
                   THEN /\ pc' = "m_failed"
                        /\ stdout' = stdout
                   ELSE /\ pc' = "m_tenants"
                        /\ stdout' = print_tabulated_output(
                                        print_tabulated_output(stdout,
                                            matched_lease_yrs_data.table,
                                            matched_lease_yrs_data.headers),
                                        matched_lease_yrs_data.total_rent,
                                        TotalRentHeaders)
       ELSE /\ pc' = "m_tenants"
            /\ UNCHANGED <<call, ret, stdout>>
    /\ NewCall
    /\ UNCHANGED <<csv, file_exists, args, rental_data, filter_data, lease_start_date_1,
                   lease_start_date_2, log>>

\* lines 208-211
MainTenants ==
    /\ pc = "m_tenants"
    /\ IF args.tenants
       THEN LET tenants_and_mast_count == get_tenant_name_and_mast_count(csv)
            IN  /\ call' = Call("tenants", 0, <<>>)
                /\ ret' = tenants_and_mast_count
                /\ stdout' = print_tabulated_output(stdout, tenants_and_mast_count.table,
                                                    tenants_and_mast_count.headers)
       ELSE UNCHANGED <<call, ret, stdout>>
    /\ pc' = "m_range"
    /\ NewCall
    /\ UNCHANGED <<csv, file_exists, args, rental_data, filter_data, lease_start_date_1,
                   lease_start_date_2, log>>

\* lines 214-218: the call begins; its statements are the Window actions.
MainRange ==
    /\ pc = "m_range"
    /\ IF args.lease_starting_range # <<>>
       THEN WindowRead(args.lease_starting_range)
       ELSE /\ pc' = "m_warn"
            /\ UNCHANGED <<call, ret, rental_data, filter_data, lease_start_date_1,
                           lease_start_date_2>>
    /\ NewCall
    /\ UNCHANGED <<csv, file_exists, args, stdout, log>>

\* line 220: the call is over.
MainRangePrint ==
    /\ pc = "w_done"
    /\ IF ret.raised # None
       THEN pc' = "m_failed" /\ stdout' = stdout
       ELSE /\ pc' = "m_warn"
            /\ stdout' = print_tabulated_output(stdout, ret.table, ret.headers)
    /\ UNCHANGED <<csv, file_exists, args, call, ret, rental_data, filter_data,
                   lease_start_date_1, lease_start_date_2, log, window_before>>

NoOptionsWarning == <<"WARNING", "No command line options were selected!">>

\* lines 223-227
MainWarn ==
    /\ pc = "m_warn"
    /\ log' = IF /\ ~Truthy(args.top_rents)
                 /\ ~Truthy(args.lease_years)
                 /\ ~args.tenants
                 /\ args.lease_starting_range = <<>>
              THEN log \cup {NoOptionsWarning}
              ELSE log
    /\ pc' = "m_end"
    /\ UNCHANGED <<csv, file_exists, args, call, ret, rental_data, filter_data,
                   lease_start_date_1, lease_start_date_2, stdout, window_before>>

\* The three rows of the tests' sample file (test lines 21-23), one tenant
\* name changed in case.
Fixture == FileOf(<<Farmhouse2, Farmhouse1, Farmhouse3>>, Columns)

\* The files main() is run on: the fixture, and every file of one line or none.
MainFiles ==
    {Fixture} \cup {f \in Files : f.fieldnames = Columns /\ Len(f.lines) <= 1}

\* The Namespaces arg_parser() returns (lines 161-180).
MainArgs ==
    [top_rents : {<<>>, <<0>>, <<2>>},
     lease_years : {<<>>, <<0>>, <<15>>},
     tenants : BOOLEAN,
     lease_starting_range : {<<>>, GoodRange, BadStartRange}]

InitMain ==
    /\ csv \in MainFiles
    /\ file_exists \in BOOLEAN
    /\ args \in MainArgs
    /\ pc = "m_start"
    /\ call = NoCall
    /\ ret = NoReturn
    /\ rental_data = <<>>
    /\ filter_data = <<>>
    /\ lease_start_date_1 = NoDate
    /\ lease_start_date_2 = NoDate
    /\ stdout = <<>>
    /\ log = {}
    /\ window_before = FALSE

NextMain ==
    \/ MainCheckFile
    \/ MainTopRents
    \/ MainLeaseYears
    \/ MainTenants
    \/ MainRange
    \/ WindowStep
    \/ MainRangePrint
    \/ MainWarn

SpecMain == InitMain /\ [][NextMain]_vars

(***************************************************************************)
(* Properties.  What the file holds is read from csv directly; a number is *)
(* the decimal its text denotes (num / den), compared exactly.             *)
(***************************************************************************)
Cell(i, col) == csv.lines[i][IndexOf(csv.fieldnames, col)]

Lines == DOMAIN csv.lines

\* The query fn was called and the call is over.
Finished(fn) ==
    /\ call.fn = fn
    /\ pc = IF fn = "lease_starting_range" THEN "w_done" ELSE "idle"

IsNumber(text) == ParseDecimal(text).ok

IsInteger(text) == ParseDecimal(text).ok /\ DotPos(text) = 0

IntegerOf(text) == ParseDecimal(text).num

NumberLess(s, t) ==
    LET a == ParseDecimal(s)
        b == ParseDecimal(t)
    IN  a.num * b.den < b.num * a.den

RentLess(i, j) == NumberLess(Cell(i, "Current Rent"), Cell(j, "Current Rent"))

\* The place of line i among the lines in ascending order of rent, lines of
\* equal rent in the order of the file.
RentRank(i) ==
    1 + Cardinality({j \in Lines : RentLess(j, i) \/ (~RentLess(i, j) /\ j < i)})

AllRentsNumeric == \A i \in Lines : IsNumber(Cell(i, "Current Rent"))

\* C1: on a file whose rents are all numbers, Rent-Rank(N) returns the
\* min(N, size) lines of lowest rent in ascending order of rent, lines of
\* equal rent in file order, each as (Property Name, Unit Name, Tenant Name,
\* Current Rent) with the rent as its text in the file; the headers are those
\* four columns for every N.
C1_RentRank ==
    (Finished("top_rents") /\ AllRentsNumeric) =>
        /\ ret.raised = None
        /\ ret.headers = <<"Property Name", "Unit Name", "Tenant Name", "Current Rent">>
        /\ Len(ret.table) = Min(call.n, Len(csv.lines))
        /\ \A i \in Lines :
              RentRank(i) <= call.n =>
                  ret.table[RentRank(i)] =
                      <<Cell(i, "Property Name"), Cell(i, "Unit Name"),
                        Cell(i, "Tenant Name"), Cell(i, "Current Rent")>>

\* Rent-Rank(N) returned fewer lines than the file holds, two of the returned
\* lines having the same rent.
C1_Witness ==
    /\ Finished("top_rents")
    /\ AllRentsNumeric
    /\ ret.raised = None
    /\ Len(ret.table) < Len(csv.lines)
    /\ \E i, j \in Lines :
          /\ i < j
          /\ ~RentLess(i, j)
          /\ ~RentLess(j, i)
          /\ RentRank(j) <= call.n

AllYearsInteger == \A i \in Lines : IsInteger(Cell(i, "Lease Years"))

YearsMatch(i, y) == IntegerOf(Cell(i, "Lease Years")) = y

\* C2: on a file whose lease years are all integers (and whose matched rents
\* are numbers), Lease-Duration-Match(Y) does not fail and returns the lines
\* whose Lease Years is Y, in file order, each whole and verbatim; the headers
\* are the file's columns in the file's order.
C2_LeaseDurationRows ==
    (/\ Finished("lease_years")
     /\ AllYearsInteger
     /\ \A i \in Lines : YearsMatch(i, call.n) => IsNumber(Cell(i, "Current Rent"))) =>
        LET Matches(line) ==
                IntegerOf(line[IndexOf(csv.fieldnames, "Lease Years")]) = call.n
        IN  /\ ret.raised = None
            /\ ret.table = SelectSeq(csv.lines, Matches)
            /\ ret.headers = csv.fieldnames

\* Lease-Duration-Match(Y) returned some lines of the file and not others,
\* one of them with a blank before its lease years, the file's columns being
\* in another order than the usual one.
C2_Witness ==
    /\ Finished("lease_years")
    /\ AllYearsInteger
    /\ ret.raised = None
    /\ ret.table # <<>>
    /\ Len(ret.table) < Len(csv.lines)
    /\ csv.fieldnames = ColumnsReordered
    /\ \E i \in Lines : YearsMatch(i, call.n) /\ Cell(i, "Lease Years")[1] = " "

\* The rents of the returned lines, and their sum as the fraction
\* ScaledSum / RentScale.
ReturnedRents ==
    [k \in DOMAIN ret.table |-> ret.table[k][IndexOf(ret.headers, "Current Rent")]]

RentScale ==
    LET dens == {ParseDecimal(ReturnedRents[k]).den : k \in DOMAIN ReturnedRents} \cup {1}
    IN  CHOOSE d \in dens : \A e \in dens : e <= d

RECURSIVE ScaledSum(_, _)
ScaledSum(texts, scale) ==
    IF texts = <<>> THEN 0
    ELSE LET d == ParseDecimal(texts[Len(texts)])
         IN  ScaledSum(SubSeq(texts, 1, Len(texts) - 1), scale)
                + d.num * (scale \div d.den)

\* C3: the total rent of Lease-Duration-Match(Y) is one cell, apart from the
\* table, and it is the exact decimal sum of the Current Rent of the returned
\* lines (the float that denotes that sum), 0 when no line is returned.
C3_TotalRentExact ==
    (Finished("lease_years") /\ ret.raised = None) =>
        /\ Len(ret.total_rent) = 1
        /\ Len(ret.total_rent[1]) = 1
        /\ ret.total_rent[1][1] = RoundToDouble(ScaledSum(ReturnedRents, RentScale), RentScale)

TenantCount(name) == Cardinality({i \in Lines : Cell(i, "Tenant Name") = name})

FirstLineOf(name) ==
    CHOOSE i \in Lines :
        /\ Cell(i, "Tenant Name") = name
        /\ \A j \in Lines : Cell(j, "Tenant Name") = name => i <= j

RECURSIVE SumOfCounts(_)
SumOfCounts(table) ==
    IF table = <<>> THEN 0
    ELSE SumOfCounts(SubSeq(table, 1, Len(table) - 1)) + table[Len(table)][2]

\* C4: Tenant-Census returns one row per distinct literal Tenant Name of the
\* file and no other, each with the number of lines that hold exactly that
\* name; the counts add up to the number of lines, and the rows are in the
\* order in which the names first occur in the file.
C4_TenantCensus ==
    Finished("tenants") =>
        /\ ret.raised = None
        /\ ret.headers = <<"Tenant Name", "Number of Masts">>
        /\ {ret.table[k][1] : k \in DOMAIN ret.table} = {Cell(i, "Tenant Name") : i \in Lines}
        /\ \A k, l \in DOMAIN ret.table : ret.table[k][1] = ret.table[l][1] => k = l
        /\ \A k \in DOMAIN ret.table :
              /\ ret.table[k][2] = TenantCount(ret.table[k][1])
              /\ ret.table[k][2] >= 1
        /\ SumOfCounts(ret.table) = Len(csv.lines)
        /\ \A k, l \in DOMAIN ret.table :
              k < l => FirstLineOf(ret.table[k][1]) < FirstLineOf(ret.table[l][1])

\* Tenant-Census counted a name that occurs twice, the name's second line
\* coming after the first line of another name, and kept apart two names that
\* differ in one letter only (its case).
C4_Witness ==
    /\ Finished("tenants")
    /\ \E k, l \in DOMAIN ret.table :
          /\ k < l
          /\ ret.table[k][2] = 2
          /\ \E i \in Lines :
                Cell(i, "Tenant Name") = ret.table[k][1] /\ i > FirstLineOf(ret.table[l][1])
    /\ \E k, l \in DOMAIN ret.table :
          /\ Len(ret.table[k][1]) = Len(ret.table[l][1])
          /\ Cardinality({p \in DOMAIN ret.table[k][1] :
                            ret.table[k][1][p] # ret.table[l][1][p]}) = 1

\* The calendar date a text of the file denotes, and the order of dates.
DateOf(text) == arrow_get(text, FMT_DMY)

DateKey(d) == d.year * 10000 + d.month * 100 + d.day

BoundsWellFormed ==
    /\ arrow_get(call.range[1], FMT_YMD).ok
    /\ arrow_get(call.range[2], FMT_YMD).ok

AllDatesWellFormed ==
    \A i \in Lines :
        DateOf(Cell(i, "Lease Start Date")).ok /\ DateOf(Cell(i, "Lease End Date")).ok

StartsInside(i) ==
    LET d == DateKey(DateOf(Cell(i, "Lease Start Date")).val)
    IN  /\ DateKey(arrow_get(call.range[1], FMT_YMD).val) <= d
        /\ d <= DateKey(arrow_get(call.range[2], FMT_YMD).val)

\* A text is day/month/year, and the date it denotes.
IsSlashDate(text) ==
    /\ Len(text) = 10
    /\ text[3] = "/"
    /\ text[6] = "/"
    /\ AllDigits(SubSeq(text, 1, 2))
    /\ AllDigits(SubSeq(text, 4, 5))
    /\ AllDigits(SubSeq(text, 7, 10))

SlashDate(text) ==
    [year |-> DigitsVal(SubSeq(text, 7, 10)), month |-> DigitsVal(SubSeq(text, 4, 5)),
     day |-> DigitsVal(SubSeq(text, 1, 2))]

\* C5: with well-formed bounds on a file of well-formed dates,
\* Lease-Window-Match returns the lines whose Lease Start Date d has
\* start <= d <= end, in file order, as (Property Name, Unit Name, Tenant
\* Name, Lease Start Date, Lease End Date, Lease Years, Current Rent), the
\* two dates written day/month/year and denoting the dates of the file.
C5_LeaseWindow ==
    (Finished("lease_starting_range") /\ BoundsWellFormed /\ AllDatesWellFormed) =>
        LET inside == SelectSeq([i \in Lines |-> i], StartsInside)
        IN  /\ ret.raised = None
            /\ ret.headers =
                  <<"Property Name", "Unit Name", "Tenant Name", "Lease Start Date",
                    "Lease End Date", "Lease Years", "Current Rent">>
            /\ Len(ret.table) = Len(inside)
            /\ \A k \in DOMAIN inside :
                  LET i == inside[k]
                      row == ret.table[k]
                  IN  /\ Len(row) = 7
                      /\ row[1] = Cell(i, "Property Name")
                      /\ row[2] = Cell(i, "Unit Name")
                      /\ row[3] = Cell(i, "Tenant Name")
                      /\ IsSlashDate(row[4])
                      /\ SlashDate(row[4]) = DateOf(Cell(i, "Lease Start Date")).val
                      /\ IsSlashDate(row[5])
                      /\ SlashDate(row[5]) = DateOf(Cell(i, "Lease End Date")).val
                      /\ row[6] = Cell(i, "Lease Years")
                      /\ row[7] = Cell(i, "Current Rent")

\* Lease-Window-Match returned a line that starts on the first day of the
\* range and one that starts on the last, and left out a line of the file.
C5_Witness ==
    /\ Finished("lease_starting_range")
    /\ BoundsWellFormed
    /\ AllDatesWellFormed
    /\ ret.raised = None
    /\ Len(ret.table) < Len(csv.lines)
    /\ \E i, j \in Lines :
          /\ DateOf(Cell(i, "Lease Start Date")).val = arrow_get(call.range[1], FMT_YMD).val
          /\ DateOf(Cell(j, "Lease Start Date")).val = arrow_get(call.range[2], FMT_YMD).val
          /\ \E k, l \in DOMAIN ret.table :
                /\ ret.table[k][1] = Cell(i, "Property Name")
                /\ ret.table[l][1] = Cell(j, "Property Name")

Printed(headers) == \E k \in DOMAIN stdout : stdout[k].headers = headers

NoSelector ==
    /\ args.top_rents = <<>>
    /\ args.lease_years = <<>>
    /\ ~args.tenants
    /\ args.lease_starting_range = <<>>

\* C6: when main() ends on an existing file, every selector given on the
\* command line has printed its table, and the warning that no option was
\* selected is logged, with nothing printed, exactly when no selector was
\* given.
C6_EverySelectorPrints ==
    pc = "m_end" =>
        /\ args.top_rents # <<>> => Printed(TopHeaders)
        /\ args.lease_years # <<>> => Printed(csv.fieldnames) /\ Printed(TotalRentHeaders)
        /\ args.tenants => Printed(TenantHeaders)
        /\ args.lease_starting_range # <<>> => Printed(WindowHeaders)
        /\ (NoOptionsWarning \in log /\ stdout = <<>>) <=> NoSelector

\* What the query of a call returns on the file as it is, run on its own.
ResultOf(c) ==
    CASE c.fn = "top_rents" ->
            LET s == read_and_sort_csv_data_by_current_rent(csv, FALSE)
            IN  IF s.raised # None THEN Raise(s.raised)
                ELSE get_top_n_items_from_list_data(s.value, c.n)
      [] c.fn = "lease_years" -> get_records_that_match_number_of_lease_years(csv, c.n)
      [] c.fn = "tenants" -> get_tenant_name_and_mast_count(csv)
      [] c.fn = "lease_starting_range" ->
            get_rental_data_for_lease_between_start_and_end_dates(csv, c.range)

DatesAsInFile ==
    \A k \in DOMAIN ret.table :
        /\ DateOf(ret.table[k][IndexOf(ret.headers, "Lease Start Date")]).ok
        /\ DateOf(ret.table[k][IndexOf(ret.headers, "Lease End Date")]).ok

SameWhateverRanBefore ==
    /\ \A fn \in {"top_rents", "lease_years", "tenants", "lease_starting_range"} :
          Finished(fn) => ret = ResultOf(call)
    /\ (window_before /\ Finished("lease_years") /\ ret.raised = None) => DatesAsInFile

\* C7: no step of any query changes what the file holds, and a query that
\* ends, whatever ran before it, returns what it returns when run on its own
\* on the file; Lease-Duration-Match after a Lease-Window-Match that
\* reformatted lines still returns the dates as 'DD Mon YYYY'.
C7_NoSharedState == [][csv' = csv]_vars /\ []SameWhateverRanBefore

\* Lease-Duration-Match returned lines after a Lease-Window-Match had
\* reformatted the dates of at least one line.
C7_Witness ==
    /\ window_before
    /\ Finished("lease_years")
    /\ ret.raised = None
    /\ ret.table # <<>>

\* C8: check_file_exists raises on a path that is no file and returns None
\* on a file; on a path that is no file main() fails at once, whatever the
\* selectors: no query is called and no table is printed.
C8_MissingFileFailsFirst ==
    /\ ~file_exists =>
          /\ pc \in {"m_start", "m_failed"}
          /\ call = NoCall
          /\ stdout = <<>>
          /\ pc = "m_failed" => ret.raised = ValueError
    /\ (file_exists /\ pc = "m_top") => ret.raised = None

\* main() has failed on a path that is no file, every selector given.
C8_Witness ==
    /\ ~file_exists
    /\ pc = "m_failed"
    /\ args.top_rents # <<>>
    /\ args.lease_years # <<>>
    /\ args.tenants
    /\ args.lease_starting_range # <<>>
    /\ csv.lines # <<>>

BoundsMalformed == call.fn = "lease_starting_range" /\ ~BoundsWellFormed

\* C9: when a bound of the range is no year-month-day date, Lease-Window-Match
\* goes from parsing the bounds straight to failing with a parse error: it
\* returns nothing, no line's date has been converted and nothing has been
\* filtered, whatever the file holds.
C9_MalformedBoundsFailFirst ==
    BoundsMalformed =>
        /\ pc \in {"w_bounds", "w_done"}
        /\ pc = "w_done" => (ret.raised = ParserError /\ ret.table = <<>>)
        /\ rental_data = DictReader(csv)
        /\ filter_data = <<>>

\* Lease-Window-Match has failed on a malformed bound, on a file that has a
\* line with a malformed date.
C9_Witness ==
    /\ BoundsMalformed
    /\ pc = "w_done"
    /\ ret.raised = ParserError
    /\ ~AllDatesWellFormed

\* C10: a query fails, returning nothing, when a field it needs cannot be
\* converted: Rent-Rank on a Current Rent that is no number, Lease-Duration-
\* Match on a Lease Years that is no integer or on a matched line's Current
\* Rent that is no number, Lease-Window-Match on a line's lease date that is
\* no date.
C10_ConversionErrorsPropagate ==
    /\ (Finished("top_rents") /\ ~AllRentsNumeric) =>
          (ret.raised = ValueError /\ ret.table = <<>>)
    /\ (Finished("lease_years") /\ ~AllYearsInteger) =>
          (ret.raised = ValueError /\ ret.table = <<>> /\ ret.total_rent = <<>>)
    /\ (/\ Finished("lease_years")
        /\ AllYearsInteger
        /\ \E i \in Lines : YearsMatch(i, call.n) /\ ~IsNumber(Cell(i, "Current Rent"))) =>
          (ret.raised = ValueError /\ ret.table = <<>> /\ ret.total_rent = <<>>)
    /\ (Finished("lease_starting_range") /\ BoundsWellFormed /\ ~AllDatesWellFormed) =>
          (ret.raised = ParserError /\ ret.table = <<>>)

\* Lease-Duration-Match has failed on a file one of whose lines, not the
\* first, has a Lease Years that is no integer, another line matching.
C10_Witness ==
    /\ Finished("lease_years")
    /\ ret.raised = ValueError
    /\ \E i, j \in Lines :
          /\ i < j
          /\ IsInteger(Cell(i, "Lease Years"))
          /\ YearsMatch(i, call.n)
          /\ ~IsInteger(Cell(j, "Lease Years"))

====
